---- MODULE Spec2Model ----
(***************************************************************************)
(* A model of mangledotdev.py: the caller side, InputManager (command      *)
(* resolution, spawn, request/response exchange, aggregation), and the     *)
(* callee side, OutputManager (init, output), running in the spawned       *)
(* child.                                                                  *)
(*                                                                         *)
(* JSON values are records of one shape, [t, s, l]: t is "null", "val" or  *)
(* "list", s the scalar and l the items.  JSON booleans and null in the    *)
(* status fields are the strings "true", "false" and "null".  A path is a  *)
(* sequence of tokens, "/" and "." among them.                             *)
(***************************************************************************)
EXTENDS Integers, Sequences, FiniteSets, TLC

VARIABLES
    language,        \* request(language=...)
    file,            \* request(file=...): a path, or NotAPath
    nt,              \* os.name == 'nt'
    fs,              \* what the filesystem holds at file
    isUnique,        \* request(isUnique=...)
    optionalOutput,  \* request(optionalOutput=...)
    data,            \* request(data=...): the kind of payload
    pc,              \* where request() is
    resolved,        \* the outcome of __get_command
    caught,          \* the exception request() caught, and where it was raised
    escaped,         \* an exception left request()
    process,         \* self.__process and the child behind it
    request,         \* self.__request
    accepted,        \* self.__response
    response,        \* self.response
    stdin,           \* the child's input pipe
    stdout,          \* the child's real output channel (the pipe)
    child,           \* the child: its position, sys.stdout, the operations done,
                     \* the init() calls made, the values output() was given after init()
    om               \* the OutputManager class attributes in the child

vars == <<language, file, nt, fs, isUnique, optionalOutput, data, pc,
          resolved, caught, escaped, process, request, accepted, response,
          stdin, stdout, child, om>>

----------------------------------------------------------------------------
(* Bounds *)

\* the operations (prints, init, output) the child's own logic performs
MaxChildOps == 3

----------------------------------------------------------------------------
(* Strings and paths *)

RECURSIVE Join(_)
\* ''.join(tokens)
Join(toks) == IF toks = <<>> THEN "" ELSE Head(toks) \o Join(Tail(toks))

\* str.lower(), token by token
Lower(t) ==
    CASE t = "PY" -> "py"
      [] t = "EXE" -> "exe"
      [] OTHER -> t

\* str(language).upper()
Upper(l) ==
    CASE l = "python" -> "PYTHON"
      [] l = "Python" -> "PYTHON"
      [] l = "py" -> "PY"
      [] l = "javascript" -> "JAVASCRIPT"
      [] l = "js" -> "JS"
      [] l = "node" -> "NODE"
      [] l = "nodejs" -> "NODEJS"
      [] l = "ruby" -> "RUBY"
      [] l = "rb" -> "RB"
      [] l = "c" -> "C"
      [] l = "cs" -> "CS"
      [] l = "cpp" -> "CPP"
      [] l = "c#" -> "C#"
      [] l = "c++" -> "C++"
      [] l = "csharp" -> "CSHARP"
      [] l = "cplusplus" -> "CPLUSPLUS"
      [] l = "exe" -> "EXE"
      [] l = "jar" -> "JAR"
      [] l = "java" -> "JAVA"
      [] l = "rust" -> "RUST"
      [] l = "rs" -> "RS"
      [] l = "go" -> "GO"
      [] l = "Go" -> "GO"
      [] l = "golang" -> "GOLANG"
      [] l = "perl" -> "PERL"
      [] l = "php" -> "PHP"
      [] OTHER -> l

\* the path separators os.path splits at
Seps == IF nt THEN {"\\", "/"} ELSE {"/"}

\* file.replace('/', '\\')
ReplaceSlash(p) == [i \in 1..Len(p) |-> IF p[i] = "/" THEN "\\" ELSE p[i]]

\* str.rfind over tokens: the last index holding one of toks, 0 when none
RFind(p, toks) ==
    LET hits == {i \in 1..Len(p) : p[i] \in toks}
    IN  IF hits = {} THEN 0 ELSE CHOOSE i \in hits : \A j \in hits : j <= i

\* os.path.splitext(p)[1]: the tokens from the last dot of the last component,
\* unless only dots come before it in that component
splitext_ext(p) ==
    LET sepIndex == RFind(p, Seps)
        dotIndex == RFind(p, {"."})
    IN  IF dotIndex > sepIndex
           /\ \E k \in (sepIndex + 1)..(dotIndex - 1) : p[k] # "."
        THEN SubSeq(p, dotIndex, Len(p))
        ELSE <<>>

\* os.path.isabs(p)
isabs(p) == Len(p) > 0 /\ p[1] \in Seps

\* file.startswith('./')
startswith_dotslash(p) == Len(p) >= 2 /\ p[1] = "." /\ p[2] = "/"

\* j in list
InSeq(x, s) == \E i \in 1..Len(s) : s[i] = x

RECURSIVE JoinWith(_, _)
\* sep.join(strs)
JoinWith(sep, strs) ==
    IF strs = <<>> THEN ""
    ELSE IF Len(strs) = 1 THEN strs[1]
    ELSE strs[1] \o sep \o JoinWith(sep, Tail(strs))

----------------------------------------------------------------------------
(* InputManager.__get_command *)

ExtC == <<".c", ".out", ".exe", "">>
ExtCs == <<".exe", ".dll", "">>
ExtCpp == <<".cpp", ".cc", ".cxx", ".out", ".exe", "">>
ExtRust == <<".rs", ".exe", ".out", "">>
ExtGo == <<".go", ".exe", ".out", "">>

extension_keys ==
    {"PYTHON", "PY", "JAVASCRIPT", "JS", "NODE", "NODEJS", "RUBY", "RB", "C",
     "CS", "CPP", "C#", "C++", "CSHARP", "CPLUSPLUS", "EXE", "JAR", "JAVA",
     "RUST", "RS", "GO", "GOLANG"}

extension_map(k) ==
    CASE k \in {"PYTHON", "PY"} -> <<".py">>
      [] k \in {"JAVASCRIPT", "JS", "NODE", "NODEJS"} -> <<".js">>
      [] k \in {"RUBY", "RB"} -> <<".rb">>
      [] k = "C" -> ExtC
      [] k \in {"CS", "C#", "CSHARP"} -> ExtCs
      [] k \in {"CPP", "C++", "CPLUSPLUS", "EXE"} -> ExtCpp
      [] k \in {"JAR", "JAVA"} -> <<".jar">>
      [] k \in {"RUST", "RS"} -> ExtRust
      [] k \in {"GO", "GOLANG"} -> ExtGo

compiled_langs ==
    {"C", "CS", "CPP", "C#", "C++", "CSHARP", "CPLUSPLUS", "EXE", "RUST", "RS",
     "GO", "GOLANG"}

lang_keys ==
    {"PYTHON", "PY", "JAVASCRIPT", "JS", "NODE", "NODEJS", "RUBY", "RB", "C",
     "CS", "CPP", "C#", "C++", "CSHARP", "CPLUSPLUS", "EXE", "JAR", "JAVA",
     "RUST", "RS", "GO", "GOLANG"}

lang_map(k, f, file_ext) ==
    CASE k \in {"PYTHON", "PY"} -> <<"python", f>>
      [] k \in {"JAVASCRIPT", "JS", "NODE", "NODEJS"} -> <<"node", f>>
      [] k \in {"RUBY", "RB"} -> <<"ruby", f>>
      [] k \in {"C", "CPP", "C++", "CPLUSPLUS", "EXE", "RUST", "RS"} -> <<f>>
      [] k \in {"CS", "C#", "CSHARP"} ->
            IF file_ext = ".dll" THEN <<"dotnet", f>> ELSE <<f>>
      [] k \in {"JAR", "JAVA"} -> <<"java", "-jar", f>>
      [] k \in {"GO", "GOLANG"} ->
            IF file_ext = ".go" THEN <<"go", "run", f>> ELSE <<f>>

\* a file argument that is no path (the default, file=str, is one)
NotAPath == <<"<class 'str'>">>

\* the outcome of a call: the exception raised ("none": it returned) and the
\* failure of section 4.1 its raise statement stands for, the value returned,
\* and the filesystem calls made on the way
Raise(kind, cls, msg, probes) ==
    [exc |-> cls, kind |-> kind, msg |-> msg, argv |-> <<>>, probes |-> probes]


Return(argv, probes) ==
    [exc |-> "none", kind |-> "", msg |-> "", argv |-> argv, probes |-> probes]

\* ', '.join([ext if ext else '(no extension)' for ext in valid_extensions])
expected(valid) ==
    JoinWith(", ", [i \in 1..Len(valid) |->
                       IF valid[i] # "" THEN valid[i] ELSE "(no extension)"])

\* a variant of the checks below that looks the language up before it
\* looks at the file
get_command_checks_language_first(lang, lang_upper, f, file_ext) ==
    IF lang_upper \notin lang_keys
    THEN Raise("UnsupportedLanguage", "ValueError", "Unsupported language: " \o lang, <<>>)
    ELSE IF ~fs.exists
    THEN Raise("FileNotFound", "FileNotFoundError", "File not found: " \o Join(f), <<"exists">>)
    ELSE IF ~fs.isfile
    THEN Raise("NotAFile", "ValueError", "Path is not a file: " \o Join(f), <<"exists", "isfile">>)
    ELSE IF (lang_upper \in compiled_langs /\ ~fs.x) \/ (lang_upper \notin compiled_langs /\ ~fs.r)
    THEN Raise("PermissionDenied", "PermissionError", "File is not accessible: " \o Join(f),
               <<"exists", "isfile", "access">>)
    ELSE Return(lang_map(lang_upper, Join(f), file_ext), <<"exists", "isfile", "access">>)

\* the checks of lines 97-146, after the extension check
get_command_checks(lang, lang_upper, f, file_ext) ==
    IF ~fs.exists
    THEN Raise("FileNotFound", "FileNotFoundError", "File not found: " \o Join(f), <<"exists">>)
    ELSE IF ~fs.isfile
    THEN Raise("NotAFile", "ValueError", "Path is not a file: " \o Join(f), <<"exists", "isfile">>)
    ELSE IF lang_upper \in compiled_langs /\ ~fs.x
    THEN Raise("PermissionDenied", "PermissionError", "File is not executable: " \o Join(f),
               <<"exists", "isfile", "access">>)
    ELSE IF lang_upper \notin compiled_langs /\ ~fs.r
    THEN Raise("PermissionDenied", "PermissionError", "File is not readable: " \o Join(f),
               <<"exists", "isfile", "access">>)
    ELSE LET f2 == IF lang_upper \in compiled_langs /\ ~isabs(f)
                      /\ ~startswith_dotslash(f)
                   THEN <<".", "/">> \o f ELSE f
         IN  IF lang_upper \notin lang_keys
             THEN Raise("UnsupportedLanguage", "ValueError", "Unsupported language: " \o lang,
                        <<"exists", "isfile", "access">>)
             ELSE Return(lang_map(lang_upper, Join(f2), file_ext),
                         <<"exists", "isfile", "access">>)

\* a variant of __get_command that checks the extension only once the file
\* is known to exist
get_command_exists_first(lang, f0) ==
    LET lang_upper == Upper(lang)
        f == IF nt THEN ReplaceSlash(f0) ELSE f0
        ext == splitext_ext(f)
        file_ext == Join([i \in 1..Len(ext) |-> Lower(ext[i])])
    IN  IF f0 = NotAPath
        THEN Raise("TypeError", "TypeError", "expected str, bytes or os.PathLike object, not type", <<>>)
        ELSE IF ~fs.exists
        THEN Raise("FileNotFound", "FileNotFoundError", "File not found: " \o Join(f), <<"exists">>)
        ELSE IF lang_upper \in extension_keys
                /\ ~InSeq(file_ext, extension_map(lang_upper))
        THEN Raise("InvalidExtension", "ValueError", "Invalid file '" \o Join(f) \o "'",
                   <<"exists">>)
        ELSE get_command_checks(lang, lang_upper, f, file_ext)

\* __get_command(language, file)
get_command(lang, f0) ==
    IF f0 = NotAPath
    THEN Raise("TypeError", "TypeError", "expected str, bytes or os.PathLike object, not type", <<>>)
    ELSE
    LET lang_upper == Upper(lang)
        f == IF nt THEN ReplaceSlash(f0) ELSE f0
        ext == splitext_ext(f)
        file_ext == Join([i \in 1..Len(ext) |-> Lower(ext[i])])
    IN  IF lang_upper \in extension_keys
           /\ ~InSeq(file_ext, extension_map(lang_upper))
        THEN Raise("InvalidExtension", "ValueError",
                   "Invalid file '" \o Join(f) \o "' for language '" \o lang
                   \o "'. Expected: e.g. 'file" \o expected(extension_map(lang_upper)) \o "'",
                   <<>>)
        ELSE get_command_checks(lang, lang_upper, f, file_ext)

----------------------------------------------------------------------------
(* JSON values and the wire *)

JNull == [t |-> "null", s |-> "", l |-> <<>>]

JVal(x) == [t |-> "val", s |-> x, l |-> <<>>]

JList(xs) == [t |-> "list", s |-> "", l |-> xs]

\* a Python bool as json.dumps writes it
JBool(b) == IF b THEN "true" ELSE "false"

\* Python truth of a decoded true / false / null
Truthy(v) == v = "true"

\* uuid.uuid4().hex, and a key that is not this call's
KEY == "k1"

OtherKey == "k0"

\* the values the child's logic hands to output()
Values == {JNull, JVal("1"), JVal("2")}

ObjectFields ==
    {"key", "request_status", "data", "optionalOutput", "isUnique", "errors", "warnings"}

\* one line of the child's output: a JSON object with the fields in has
ObjectLine(has, key, status, val, optional, unique, errors, warnings) ==
    [t |-> "object", has |-> has, key |-> key, request_status |-> status,
     data |-> val, optionalOutput |-> optional, isUnique |-> unique,
     errors |-> errors, warnings |-> warnings]

\* text that is no JSON; a JSON value that is no object; bytes that are no UTF-8
TextLine == [t |-> "text"]

ScalarLine == [t |-> "scalar"]

BytesLine == [t |-> "bytes"]

\* a line of spaces
BlankLine == [t |-> "blank"]

\* {} : a JSON object with none of the fields
EmptyObjectLine == ObjectLine({}, "null", "null", JNull, "null", "null", <<>>, <<>>)

\* a complete response line of some other exchange
ForeignLine ==
    ObjectLine(ObjectFields, OtherKey, "true", JVal("9"), "true", "false", <<>>, <<>>)

\* what the child's own logic prints
OwnLines == {TextLine, BlankLine, ScalarLine, BytesLine, EmptyObjectLine, ForeignLine}

\* json.dumps(self.__raw_request): the exception it raises, or the text
dumps_request(k, optional, unique, payload) ==
    CASE payload = "unserializable" ->
            Raise("NotSerializable", "TypeError", "Object of type object is not JSON serializable", <<>>)
      [] payload = "circular" ->
            Raise("CircularReference", "ValueError", "Circular reference detected", <<>>)
      [] OTHER ->
            [exc |-> "none",
             text |-> [key |-> k, optionalOutput |-> JBool(optional),
                       isUnique |-> JBool(unique), data |-> JVal("payload")]]

----------------------------------------------------------------------------
(* InputManager.request: the handlers, lines 266-283 *)

NoResponse == [none |-> TRUE]

WarnTarget ==
    "Warning: targeted file not found or can't be executed, consider checking file informations and language dependencies."

WarnScript == "Warning: these kind of errors result from an error in the targeted script."

WarnOptional ==
    "Warning: the output setting is set to optional, and the targeted program didn't gave any output."

ErrNoOutput == "Error: OutputManager might not be used or not correctly."

\* a variant of the first except clause: except ValueError alone
CaughtFirst_ValueErrorOnly(cls) == cls \in {"ValueError", "UnicodeDecodeError"}

\* issubclass(cls, (FileNotFoundError, PermissionError, ValueError))
CaughtFirst(cls) ==
    cls \in {"FileNotFoundError", "PermissionError", "ValueError", "UnicodeDecodeError"}

\* a variant of the last except clause: except OSError
CaughtGeneric_OSErrorOnly(cls) ==
    cls \in {"FileNotFoundError", "PermissionError", "OSError"}

\* issubclass(cls, Exception)
CaughtGeneric(cls) ==
    cls \in {"FileNotFoundError", "PermissionError", "ValueError",
             "UnicodeDecodeError", "TypeError", "KeyError", "OSError"}

\* the response an except clause builds
except_response(cls, msg) ==
    IF CaughtFirst(cls)
    THEN [request_status |-> "false", data |-> JNull,
          optionalOutput |-> JBool(optionalOutput), isUnique |-> JBool(isUnique),
          warnings |-> <<WarnTarget>>, errors |-> <<"Error: " \o msg>>]
    ELSE [request_status |-> "false", data |-> JNull,
          optionalOutput |-> JBool(optionalOutput), isUnique |-> JBool(isUnique),
          warnings |-> <<>>, errors |-> <<"Unexpected error: " \o msg>>]

\* an exception raised at `at` inside the try of request()
Except(cls, msg, at) ==
    /\ caught' = [cls |-> cls, at |-> at]
    /\ IF CaughtFirst(cls) \/ CaughtGeneric(cls)
       THEN response' = except_response(cls, msg) /\ escaped' = FALSE
       ELSE response' = response /\ escaped' = TRUE
    /\ pc' = "done"

----------------------------------------------------------------------------
(* InputManager.request: lines 199-264, what follows communicate() *)

RECURSIVE SelectLines_any_key(_, _)
\* a variant of the filter that keeps every dict, whatever its key
SelectLines_any_key(lines, k) ==
    IF lines = <<>> THEN <<>>
    ELSE IF Head(lines).t = "object"
         THEN <<Head(lines)>> \o SelectLines_any_key(Tail(lines), k)
         ELSE SelectLines_any_key(Tail(lines), k)

RECURSIVE SelectLines(_, _)
\* lines 208-222: the lines kept in self.__response.  A line that is blank or
\* that json.loads rejects is passed over, and so is a decoded value that is no
\* dict; a dict is kept when its key is this call's or is None (absent or null)
SelectLines(lines, k) ==
    IF lines = <<>> THEN <<>>
    ELSE LET line == Head(lines)
             rest == SelectLines(Tail(lines), k)
             key_ == IF line.t = "object" /\ "key" \in line.has THEN line.key ELSE "null"
         IN  IF line.t = "object" /\ (key_ = k \/ key_ = "null")
             THEN <<line>> \o rest
             ELSE rest

RECURSIVE ConcatErrors(_)
\* lines 237-239
ConcatErrors(lines) ==
    IF lines = <<>> THEN <<>> ELSE Head(lines).errors \o ConcatErrors(Tail(lines))

\* lines 226-243 read i["request_status"] of every kept line, then
\* ["isUnique"] of the first, then i["errors"] and i["data"] of every one: the
\* first of these that is missing raises KeyError
MissingField(lines) ==
    IF \E i \in 1..Len(lines) : "request_status" \notin lines[i].has THEN "request_status"
    ELSE IF "isUnique" \notin lines[1].has THEN "isUnique"
    ELSE IF \E i \in 1..Len(lines) : "errors" \notin lines[i].has THEN "errors"
    ELSE IF \E i \in 1..Len(lines) : "data" \notin lines[i].has THEN "data"
    ELSE "none"

\* lines 188-195
initial_response(optional, unique) ==
    [request_status |-> "null", data |-> JNull, optionalOutput |-> JBool(optional),
     isUnique |-> JBool(unique), warnings |-> <<>>, errors |-> <<>>]

\* lines 199-206: the child exited with a status that is not 0
exit_response(r0, returncode, stderr) ==
    [r0 EXCEPT !.request_status = "false",
               !.errors = <<"Process exited with code " \o ToString(returncode)>>
                          \o (IF stderr # "" THEN <<"stderr: " \o stderr>> ELSE <<>>),
               !.warnings = <<WarnScript>>]

\* a variant of the fold that takes the first value under isUnique and does
\* not count the lines
fold_response_uncounted(r0, lines) ==
    LET failure == \E i \in 1..Len(lines) : ~Truthy(lines[i].request_status)
        data_list == [i \in 1..Len(lines) |-> lines[i].data]
        r1 == [r0 EXCEPT !.request_status = IF ~failure THEN "true" ELSE "false",
                         !.isUnique = lines[1].isUnique,
                         !.errors = ConcatErrors(lines)]
    IN  IF Truthy(lines[1].isUnique)
        THEN [r1 EXCEPT !.data = data_list[1]]
        ELSE [r1 EXCEPT !.data = JList(data_list)]

\* a variant of the fold that keeps the data of the lines that report success
fold_response_successes(r0, lines) ==
    LET failure == \E i \in 1..Len(lines) : ~Truthy(lines[i].request_status)
        data_list == [i \in 1..Len(lines) |-> lines[i].data]
        good == SelectSeq(lines, LAMBDA i : Truthy(i.request_status))
        r1 == [r0 EXCEPT !.request_status = IF ~failure THEN "true" ELSE "false",
                         !.isUnique = lines[1].isUnique,
                         !.errors = ConcatErrors(lines)]
    IN  IF Truthy(lines[1].isUnique)
        THEN IF Len(data_list) = 1
             THEN [r1 EXCEPT !.data = data_list[1]]
             ELSE [r1 EXCEPT !.request_status = "false",
                             !.data = JNull,
                             !.errors = ConcatErrors(lines) \o
                                <<"Error: Expected 1 output (isUnique=True) but received "
                                  \o ToString(Len(data_list)) \o ".">>]
        ELSE [r1 EXCEPT !.data = JList([i \in 1..Len(good) |-> good[i].data])]

\* lines 224-253: at least one line was kept
fold_response(r0, lines) ==
    LET failure == \E i \in 1..Len(lines) : ~Truthy(lines[i].request_status)
        unique == lines[1].isUnique
        errs == ConcatErrors(lines)
        data_list == [i \in 1..Len(lines) |-> lines[i].data]
        r1 == [r0 EXCEPT !.request_status = IF ~failure THEN "true" ELSE "false",
                         !.isUnique = unique,
                         !.errors = errs]
    IN  IF Truthy(unique)
        THEN IF Len(data_list) = 1
             THEN [r1 EXCEPT !.data = data_list[1]]
             ELSE [r1 EXCEPT !.request_status = "false",
                             !.data = JNull,
                             !.errors = errs \o
                                <<"Error: Expected 1 output (isUnique=True) but received "
                                  \o ToString(Len(data_list)) \o ".">>]
        ELSE [r1 EXCEPT !.data = JList(data_list)]

\* a variant of the empty case that takes every output to be optional
empty_response_always_optional(r0, optional) ==
    [r0 EXCEPT !.request_status = "null", !.data = JNull, !.warnings = <<WarnOptional>>]

\* lines 255-262: no line was kept
empty_response(r0, optional) ==
    IF optional
    THEN [r0 EXCEPT !.request_status = "null", !.data = JNull,
                    !.warnings = <<WarnOptional>>]
    ELSE [r0 EXCEPT !.request_status = "false", !.data = JNull,
                    !.errors = <<ErrNoOutput>>]

\* lines 197-264 once the child has exited: the exception raised, or the
\* response and the lines kept
collect(output, returncode, stderr, k, optional, unique) ==
    LET r0 == initial_response(optional, unique)
        kept == SelectLines(output, k)
    IN  IF \E i \in 1..Len(output) : output[i].t = "bytes"
        THEN [exc |-> "UnicodeDecodeError",
              msg |-> "'utf-8' codec can't decode byte 0xff in position 0: invalid start byte",
              at |-> "communicate", kept |-> <<>>, response |-> r0]
        ELSE IF returncode # 0
        THEN [exc |-> "none", msg |-> "", at |-> "exit", kept |-> <<>>,
              response |-> exit_response(r0, returncode, stderr)]
        ELSE IF Len(kept) # 0
        THEN IF MissingField(kept) # "none"
             THEN [exc |-> "KeyError", msg |-> "'" \o MissingField(kept) \o "'",
                   at |-> "fold", kept |-> kept, response |-> r0]
             ELSE [exc |-> "none", msg |-> "", at |-> "fold", kept |-> kept,
                   response |-> fold_response(r0, kept)]
        ELSE [exc |-> "none", msg |-> "", at |-> "empty", kept |-> kept,
              response |-> empty_response(r0, optional)]

----------------------------------------------------------------------------
(* The state after InputManager(), before request(), and no child yet *)

NoResult == [exc |-> "unset", kind |-> "", msg |-> "", argv |-> <<>>, probes |-> <<>>]

NoText == [none |-> TRUE]

\* OutputManager's class attributes as the class statement leaves them
om_class ==
    [original_stdout |-> "none", request |-> "none", data |-> NoText,
     request_status |-> "null", optional |-> "null", unique_state |-> "null",
     init_error |-> "null", errors |-> <<>>, warnings |-> <<>>]

\* what the filesystem may hold at a path: nothing, a directory, a regular file
FsStates ==
    {f \in [exists : BOOLEAN, isfile : BOOLEAN, r : BOOLEAN, x : BOOLEAN] :
        /\ f.isfile => f.exists
        /\ (f.r \/ f.x) => f.exists}

\* the inputs of the exchange model
Languages == {"python", "c", "perl"}

Files == {<<"a", ".", "py">>, <<"a">>, NotAPath}

Payloads == {"ok", "unserializable", "circular"}

\* the inputs of the resolver model
AllLanguages ==
    {"python", "Python", "py", "javascript", "js", "node", "nodejs", "ruby", "rb",
     "c", "cs", "cpp", "c#", "c++", "csharp", "cplusplus", "exe", "jar", "java",
     "rust", "rs", "go", "Go", "golang", "perl", "php"}

AllFiles ==
    {<<"a", ".", "py">>, <<"a", ".", "PY">>, <<"a", ".", "js">>, <<"a", ".", "rb">>,
     <<"a", ".", "c">>, <<"a", ".", "dll">>, <<"a", ".", "jar">>, <<"a", ".", "go">>,
     <<"a", ".", "EXE">>, <<"a", ".", "txt">>, <<"a">>, <<".", "py">>,
     <<"d", ".", "py", "/", "a">>, <<"/", "d", "/", "a", ".", "py">>,
     <<".", "/", "a">>, <<"a", ".", "tar", ".", "py">>}

InitRest ==
    /\ pc = "start"
    /\ resolved = NoResult
    /\ caught = [cls |-> "none", at |-> "none"]
    /\ escaped = FALSE
    /\ process = [state |-> "none", spawned |-> 0, returncode |-> 0, stderr |-> "",
                  waited |-> FALSE]
    /\ request = NoText
    /\ accepted = <<>>
    /\ response = NoResponse
    /\ stdin = [text |-> NoText, closed |-> FALSE, consumed |-> FALSE]
    /\ stdout = <<>>
    /\ child = [pc |-> "none", sys_stdout |-> "real", ops |-> 0, inits |-> 0,
                emitted |-> <<>>, wrote |-> <<>>, outputs |-> 0]
    /\ om = om_class

Init ==
    /\ language \in Languages
    /\ file \in Files
    /\ nt = FALSE
    /\ fs \in FsStates
    /\ isUnique \in BOOLEAN
    /\ optionalOutput \in BOOLEAN
    /\ data \in Payloads
    /\ InitRest

InitResolve ==
    /\ language \in AllLanguages
    /\ file \in AllFiles
    /\ nt \in BOOLEAN
    /\ fs \in FsStates
    /\ isUnique = TRUE
    /\ optionalOutput = TRUE
    /\ data = "ok"
    /\ InitRest

inputs == <<language, file, nt, fs, isUnique, optionalOutput, data>>

----------------------------------------------------------------------------
(* InputManager.request, step by step *)

\* lines 169-170: the key, and the command
Resolve ==
    /\ pc = "start"
    /\ resolved' = get_command(language, file)
    /\ IF resolved'.exc # "none"
       THEN Except(resolved'.exc, resolved'.msg, "get_command")
       ELSE /\ pc' = "spawn"
            /\ UNCHANGED <<caught, escaped, response>>
    /\ UNCHANGED <<inputs, process, request, accepted, stdin, stdout, child, om>>

\* what Popen can do with a command on some host: start the child, or fail as
\* the operating system failed (ENOENT, EACCES, any other errno)
SpawnOutcomes == {"ok", "FileNotFoundError", "PermissionError", "OSError"}

spawn_message(cls, argv) ==
    CASE cls = "FileNotFoundError" -> "[Errno 2] No such file or directory: '" \o argv[1] \o "'"
      [] cls = "PermissionError" -> "[Errno 13] Permission denied: '" \o argv[1] \o "'"
      [] OTHER -> "[Errno 8] Exec format error: '" \o argv[1] \o "'"

\* lines 172-178: subprocess.Popen(command, ...)
Spawn ==
    /\ pc = "spawn"
    /\ \E outcome \in SpawnOutcomes :
          IF outcome = "ok"
          THEN /\ process' = [process EXCEPT !.state = "running",
                                             !.spawned = process.spawned + 1]
               /\ child' = [child EXCEPT !.pc = "run"]
               /\ pc' = "dumps"
               /\ UNCHANGED <<caught, escaped, response>>
          ELSE /\ Except(outcome, spawn_message(outcome, resolved.argv), "Popen")
               /\ UNCHANGED <<process, child>>
    /\ UNCHANGED <<inputs, resolved, request, accepted, stdin, stdout, om>>

\* lines 180-195: the request is serialized
Dumps ==
    /\ pc = "dumps"
    /\ LET d == dumps_request(KEY, optionalOutput, isUnique, data)
       IN  IF d.exc # "none"
           THEN Except(d.exc, d.msg, "dumps") /\ UNCHANGED request
           ELSE /\ request' = d.text
                /\ pc' = "communicate"
                /\ UNCHANGED <<caught, escaped, response>>
    /\ UNCHANGED <<inputs, resolved, process, accepted, stdin, stdout, child, om>>

\* line 197, communicate(input=...): the request is written to the child's input
CommunicateWrite ==
    /\ pc = "communicate"
    /\ stdin' = [stdin EXCEPT !.text = request]
    /\ pc' = "close"
    /\ UNCHANGED <<inputs, resolved, caught, escaped, process, request, accepted,
                   response, stdout, child, om>>

\* line 197, communicate(): the child's input is closed
CommunicateClose ==
    /\ pc = "close"
    /\ stdin' = [stdin EXCEPT !.closed = TRUE]
    /\ pc' = "wait"
    /\ UNCHANGED <<inputs, resolved, caught, escaped, process, request, accepted,
                   response, stdout, child, om>>

\* lines 197-264: communicate() returns once the child has exited and has
\* been waited on; the output is decoded, and the response is built
CommunicateReturn ==
    /\ pc = "wait"
    /\ process.state = "exited"
    /\ process' = [process EXCEPT !.waited = TRUE]
    /\ LET c == collect(stdout, process.returncode, process.stderr, KEY,
                        optionalOutput, isUnique)
       IN  /\ accepted' = c.kept
           /\ IF c.exc # "none"
              THEN Except(c.exc, c.msg, c.at)
              ELSE /\ response' = c.response
                   /\ caught' = [cls |-> "none", at |-> c.at]
                   /\ pc' = "done"
                   /\ UNCHANGED escaped
    /\ UNCHANGED <<inputs, resolved, request, stdin, stdout, child, om>>

----------------------------------------------------------------------------
(* The child: its own logic, and OutputManager *)

ExitCodes == {0, 1}

Stderrs == {"", "Traceback"}

\* str() of a decoded true / false / null
PyStr(v) == CASE v = "true" -> "True" [] v = "false" -> "False" [] OTHER -> "None"

\* a write to sys.stdout, wherever it is bound
write_to(target, line) == IF target = "real" THEN Append(stdout, line) ELSE stdout

\* lines 371-374 and 406-409: the handle sys.stdout is set back to
restored == IF om.original_stdout # "none" THEN om.original_stdout ELSE "real"

\* a variant of __write that leaves the value out of a rejected line
response_line_rejected_null(o, args) ==
    ObjectLine(ObjectFields,
               IF o.data # NoText THEN o.data.key ELSE "null",
               o.request_status,
               IF o.request_status = "false" THEN JNull ELSE args,
               o.optional,
               IF o.data # NoText THEN o.data.isUnique ELSE "null",
               o.errors, o.warnings)

\* lines 377-385: the line __write builds from the class attributes
response_line(o, args) ==
    ObjectLine(ObjectFields,
               IF o.data # NoText THEN o.data.key ELSE "null",
               o.request_status, args, o.optional,
               IF o.data # NoText THEN o.data.isUnique ELSE "null",
               o.errors, o.warnings)

\* the child's own logic writes a line to sys.stdout
ChildWrite ==
    /\ child.pc = "run"
    /\ child.ops < MaxChildOps
    /\ \E line \in OwnLines : stdout' = write_to(child.sys_stdout, line)
    /\ child' = [child EXCEPT !.ops = child.ops + 1]
    /\ UNCHANGED <<inputs, pc, resolved, caught, escaped, process, request, accepted,
                   response, stdin, om>>

\* the child's own logic reads its input to the end before OutputManager
\* does: what init() reads at line 349 is then ''
ChildReadInput ==
    /\ child.pc = "run"
    /\ stdin.closed
    /\ ~stdin.consumed
    /\ stdin' = [stdin EXCEPT !.consumed = TRUE]
    /\ UNCHANGED <<inputs, pc, resolved, caught, escaped, process, request, accepted,
                   response, stdout, child, om>>

\* OutputManager.init, lines 345-349: stdout is saved and redirected, and
\* the read of stdin begins
ChildInitBegin ==
    /\ child.pc = "run"
    /\ child.ops < MaxChildOps
    /\ om' = [om EXCEPT !.original_stdout = child.sys_stdout]
    /\ child' = [child EXCEPT !.sys_stdout = "discard", !.pc = "reading",
                              !.ops = child.ops + 1, !.inits = child.inits + 1]
    /\ UNCHANGED <<inputs, pc, resolved, caught, escaped, process, request, accepted,
                   response, stdin, stdout>>

\* a variant of init() that does not empty the accumulators
init_decoded_keeps_errors(o, text) ==
    [o EXCEPT !.request = "read", !.data = text, !.optional = text.optionalOutput,
              !.init_error = "null", !.request_status = "null",
              !.unique_state = "null"]

\* lines 350-359 on the text read
init_decoded(o, text) ==
    [o EXCEPT !.request = "read", !.data = text, !.optional = text.optionalOutput,
              !.errors = <<>>, !.warnings = <<>>, !.init_error = "null",
              !.request_status = "null", !.unique_state = "null"]

\* OutputManager.init, lines 349-359: read() returns at end of input.  A read
\* after the input was consumed returns '', which json.loads rejects; the
\* child's logic handles the exception, or the child dies of it
ChildInitRead ==
    /\ child.pc = "reading"
    /\ stdin.closed
    /\ IF ~stdin.consumed /\ stdin.text # NoText
       THEN /\ stdin' = [stdin EXCEPT !.consumed = TRUE]
            /\ om' = init_decoded(om, stdin.text)
            /\ child' = [child EXCEPT !.pc = "run"]
            /\ UNCHANGED process
       ELSE /\ stdin' = [stdin EXCEPT !.consumed = TRUE]
            /\ om' = [om EXCEPT !.request = ""]
            /\ \E handled \in BOOLEAN :
                  IF handled
                  THEN child' = [child EXCEPT !.pc = "run"] /\ UNCHANGED process
                  ELSE /\ child' = [child EXCEPT !.pc = "exited"]
                       /\ process' = [process EXCEPT !.state = "exited",
                                                     !.returncode = 1,
                                                     !.stderr = "Traceback"]
    /\ UNCHANGED <<inputs, pc, resolved, caught, escaped, request, accepted, response,
                   stdout>>

\* lines 404-414: output() before any init() succeeded
output_uninitialized(o) ==
    IF ~Truthy(o.init_error)
    THEN LET o1 == [o EXCEPT !.request_status = "false",
                             !.errors = Append(o.errors,
                                          "Error: OutputManager isn't initialized.")]
         IN  [om |-> [o1 EXCEPT !.init_error = "true"],
              out |-> write_to(restored, response_line(o1, JNull)),
              wrote |-> <<[line |-> response_line(o1, JNull), to |-> restored]>>,
              sys_stdout |-> restored]
    ELSE [om |-> o, out |-> stdout, wrote |-> <<>>, sys_stdout |-> child.sys_stdout]

\* a variant of output() that allows one emission whatever isUnique says
output_initialized_once(o, val) ==
    LET o1 == IF ~Truthy(o.unique_state)
              THEN [o EXCEPT !.request_status = "true"]
              ELSE [o EXCEPT !.request_status = "false",
                             !.errors = Append(o.errors,
                                          "Error: outputs out of bound (isUnique: "
                                          \o PyStr(o.unique_state) \o ").")]
    IN  [om |-> [o1 EXCEPT !.unique_state = "true"],
         out |-> write_to(restored, response_line(o1, val)),
         wrote |-> <<[line |-> response_line(o1, val), to |-> restored]>>,
         sys_stdout |-> "discard"]

\* lines 416-431: output(val) after init()
output_initialized(o, val) ==
    LET o1 == IF ~Truthy(o.unique_state) \/ ~Truthy(o.data.isUnique)
              THEN [o EXCEPT !.request_status = "true"]
              ELSE [o EXCEPT !.request_status = "false",
                             !.errors = Append(o.errors,
                                          "Error: outputs out of bound (isUnique: "
                                          \o PyStr(o.unique_state) \o ").")]
    IN  [om |-> [o1 EXCEPT !.unique_state = o.data.isUnique],
         out |-> write_to(restored, response_line(o1, val)),
         wrote |-> <<[line |-> response_line(o1, val), to |-> restored]>>,
         sys_stdout |-> "discard"]

\* OutputManager.output(val)
ChildOutput ==
    /\ child.pc = "run"
    /\ child.ops < MaxChildOps
    /\ \E val \in Values :
          LET res == IF om.data = NoText THEN output_uninitialized(om)
                     ELSE output_initialized(om, val)
          IN  /\ om' = res.om
              /\ stdout' = res.out
              /\ child' = [child EXCEPT !.sys_stdout = res.sys_stdout,
                                        !.ops = child.ops + 1,
                                        !.emitted = IF om.data = NoText THEN child.emitted
                                                    ELSE Append(child.emitted, val),
                                        !.wrote = child.wrote \o res.wrote,
                                        !.outputs = child.outputs + 1]
    /\ UNCHANGED <<inputs, pc, resolved, caught, escaped, process, request, accepted,
                   response, stdin>>

\* the child ends: its logic returns or calls exit, or an exception ends it
ChildExit ==
    /\ child.pc = "run"
    /\ \E code \in ExitCodes, err \in Stderrs :
          process' = [process EXCEPT !.state = "exited", !.returncode = code,
                                     !.stderr = err]
    /\ child' = [child EXCEPT !.pc = "exited"]
    /\ UNCHANGED <<inputs, pc, resolved, caught, escaped, request, accepted, response,
                   stdin, stdout, om>>

----------------------------------------------------------------------------
(* Specifications *)

Next ==
    \/ Resolve
    \/ Spawn
    \/ Dumps
    \/ CommunicateWrite
    \/ CommunicateClose
    \/ CommunicateReturn
    \/ ChildWrite
    \/ ChildReadInput
    \/ ChildInitBegin
    \/ ChildInitRead
    \/ ChildOutput
    \/ ChildExit

\* one request(), with the child it spawns
Spec == Init /\ [][Next]_vars

NextResolve == Resolve

\* __get_command over the language table and a range of paths
SpecResolve == InitResolve /\ [][NextResolve]_vars

----------------------------------------------------------------------------
(* The resolver: claims C8, C9 *)

\* the language is one the table knows
Supported == Upper(language) \in lang_keys

\* the extension of the path, as the resolver reads it
FileExt ==
    LET f == IF nt THEN ReplaceSlash(file) ELSE file
        ext == splitext_ext(f)
    IN  Join([i \in 1..Len(ext) |-> Lower(ext[i])])

\* the accepted extensions, from the table of section 4.1 (lines 66-89)
Accepts(k, e) ==
    CASE k \in {"PYTHON", "PY"} -> e = ".py"
      [] k \in {"JAVASCRIPT", "JS", "NODE", "NODEJS"} -> e = ".js"
      [] k \in {"RUBY", "RB"} -> e = ".rb"
      [] k = "C" -> e \in {".c", ".out", ".exe", ""}
      [] k \in {"CS", "C#", "CSHARP"} -> e \in {".exe", ".dll", ""}
      [] k \in {"CPP", "C++", "CPLUSPLUS", "EXE"} ->
            e \in {".cpp", ".cc", ".cxx", ".out", ".exe", ""}
      [] k \in {"JAR", "JAVA"} -> e = ".jar"
      [] k \in {"RUST", "RS"} -> e \in {".rs", ".exe", ".out", ""}
      [] k \in {"GO", "GOLANG"} -> e \in {".go", ".exe", ".out", ""}
      [] OTHER -> TRUE

\* the resolver has been called
Resolved == resolved # NoResult

\* C8: for every supported language and every path whose extension is
\* outside the language's accepted set, resolution fails with InvalidExtension
\* and has made no filesystem call, whatever the filesystem holds at the path
\* (nothing, a directory, an unreadable file): never FileNotFound, NotAFile or
\* PermissionDenied.
C8_ExtensionFirst ==
    (Resolved /\ file # NotAPath /\ Supported /\ ~Accepts(Upper(language), FileExt))
        => /\ resolved.exc = "ValueError"
           /\ resolved.kind = "InvalidExtension"
           /\ resolved.probes = <<>>

\* a path that does not exist, with an extension the language does not accept
C8_Witness ==
    /\ Resolved /\ Supported /\ ~Accepts(Upper(language), FileExt)
    /\ ~fs.exists
    /\ resolved.kind = "InvalidExtension"
    /\ pc = "done" /\ response.request_status = "false"

\* C9, as claimed: whenever the language is not in the table, resolution fails
\* with UnsupportedLanguage, whatever the path is.
C9_Claimed ==
    (Resolved /\ file # NotAPath /\ ~Supported) => resolved.kind = "UnsupportedLanguage"

\* C9, amended: whenever the language is not in the table, resolution fails;
\* it fails with UnsupportedLanguage when the path exists, is a regular file
\* and is readable, and otherwise with the failure of the file check that
\* comes first: FileNotFound, NotAFile or PermissionDenied.
C9_UnsupportedLast ==
    (Resolved /\ file # NotAPath /\ ~Supported)
        => /\ resolved.exc # "none"
           /\ resolved.kind =
                 IF ~fs.exists THEN "FileNotFound"
                 ELSE IF ~fs.isfile THEN "NotAFile"
                 ELSE IF ~fs.r THEN "PermissionDenied"
                 ELSE "UnsupportedLanguage"

\* an unknown language with a readable regular file: UnsupportedLanguage
C9_Witness ==
    /\ Resolved /\ ~Supported /\ file # NotAPath
    /\ fs.exists /\ fs.isfile /\ fs.r
    /\ resolved.kind = "UnsupportedLanguage"
    /\ pc = "done" /\ response.errors = <<"Error: Unsupported language: " \o language>>

----------------------------------------------------------------------------
(* request(): claims C1, C2, C7, C10 *)

\* request() has returned
Returned == pc = "done"

\* communicate() returned: the child exited and request() saw its exit status
SawExit == Returned /\ process.waited

\* a response with every field of section 3
Complete(r) ==
    /\ r # NoResponse
    /\ DOMAIN r = {"request_status", "data", "optionalOutput", "isUnique",
                   "warnings", "errors"}
    /\ r.request_status \in {"true", "false", "null"}
    /\ r.optionalOutput = JBool(optionalOutput)

\* the failure paths of request(): the resolver, the spawn or the serializer
\* raised, the child's exit status was not 0, or a kept line lacked a field
FailurePath ==
    \/ caught.cls # "none"
    \/ SawExit /\ process.returncode # 0

\* C1: request() never raises to its caller: whenever it returns,
\* self.response is a complete AggregateResult, and on every failure path
\* (resolver, spawn, serialization, non-zero exit, malformed kept line)
\* request_status is false and errors is not empty.
C1_NeverRaises ==
    /\ ~escaped
    /\ Returned => Complete(response)
    /\ (Returned /\ FailurePath)
          => response.request_status = "false" /\ response.errors # <<>>

\* the child printed {} and exited 0: the line is kept, lacks request_status,
\* and the KeyError is caught
C1_Witness ==
    /\ Returned /\ ~escaped
    /\ caught = [cls |-> "KeyError", at |-> "fold"]
    /\ response.errors = <<"Unexpected error: 'request_status'">>

\* the entry lines 199-201 put in errors for an exit status
ExitEntry(code) == "Process exited with code " \o ToString(code)

\* C2, as claimed: if the child exits with a status that is not 0, the result
\* has request_status false, data null and an errors entry naming the exit
\* status, whatever the child printed before, and none of its lines is kept.
C2_Claimed ==
    (SawExit /\ process.returncode # 0)
        => /\ response.request_status = "false"
           /\ response.data = JNull
           /\ InSeq(ExitEntry(process.returncode), response.errors)
           /\ accepted = <<>>

\* C2 where the child's output decodes as text: the exit status is reported
C2_Decodable ==
    (SawExit /\ process.returncode # 0 /\ ~InSeq(BytesLine, stdout))
        => /\ response.request_status = "false"
           /\ response.data = JNull
           /\ InSeq(ExitEntry(process.returncode), response.errors)
           /\ accepted = <<>>

\* no line of the child's output is kept: the output decodes, and no line of
\* it is an object with this call's key or without a key
NothingKept == ~InSeq(BytesLine, stdout) /\ SelectLines(stdout, KEY) = <<>>

\* C7: when the child exits 0 and no response line is kept, the result has
\* data null and, if optionalOutput, request_status null, one warning and no
\* error, else request_status false and the one error that the target gave no
\* response; request_status is null in no other outcome.
C7_NoOutput ==
    /\ (SawExit /\ process.returncode = 0 /\ NothingKept)
          => /\ response.data = JNull
             /\ IF optionalOutput
                THEN /\ response.request_status = "null"
                     /\ Len(response.warnings) = 1
                     /\ response.errors = <<>>
                ELSE /\ response.request_status = "false"
                     /\ response.errors = <<ErrNoOutput>>
    /\ (Returned /\ response.request_status = "null")
          => SawExit /\ process.returncode = 0 /\ NothingKept /\ optionalOutput

\* the child printed text that is no response line and exited 0; the output
\* was optional
C7_Witness ==
    /\ SawExit /\ process.returncode = 0 /\ NothingKept
    /\ InSeq(TextLine, stdout)
    /\ optionalOutput
    /\ response.request_status = "null"
    /\ response.warnings = <<WarnOptional>>

\* Popen raised
SpawnFailed == Returned /\ caught.at = "Popen"

\* C10, as claimed: if the child cannot be spawned, for every reason the
\* spawn can fail, the result has request_status false and errors =
\* ["Unexpected error: <detail>"], through the generic handler.
C10_Claimed ==
    SpawnFailed
        => /\ response.request_status = "false"
           /\ response.errors =
                 <<"Unexpected error: " \o spawn_message(caught.cls, resolved.argv)>>
           /\ response.warnings = <<>>

\* C10, amended: if the child cannot be spawned, the result has
\* request_status false, data null and one error.  When the spawn raises
\* FileNotFoundError or PermissionError (a missing or non-executable
\* interpreter or binary) the first handler reports it, as a resolver failure
\* is reported: "Error: <detail>", with the warning about the target file and
\* its dependencies.  Any other failure to spawn goes to the generic handler:
\* "Unexpected error: <detail>", and no warning.
C10_SpawnFailure ==
    SpawnFailed
        => /\ response.request_status = "false"
           /\ response.data = JNull
           /\ IF caught.cls \in {"FileNotFoundError", "PermissionError"}
              THEN /\ response.errors =
                         <<"Error: " \o spawn_message(caught.cls, resolved.argv)>>
                   /\ response.warnings = <<WarnTarget>>
              ELSE /\ response.errors =
                         <<"Unexpected error: " \o spawn_message(caught.cls, resolved.argv)>>
                   /\ response.warnings = <<>>

\* the interpreter is missing: Popen raises FileNotFoundError
C10_Witness ==
    /\ SpawnFailed
    /\ caught.cls = "FileNotFoundError"
    /\ resolved.argv[1] = "python"
    /\ response.errors = <<"Error: [Errno 2] No such file or directory: 'python'">>

----------------------------------------------------------------------------
(* The exchange of caller and callee: claims C3, C4, C5, C6 *)

\* the child used OutputManager as section 4.4 lays down, and its own logic
\* put nothing on the channel that the caller keeps: init() was called once
\* and has returned, output() was never called before it, and every line of
\* the output that the caller keeps carries this call's key
CalleeInitialized ==
    /\ child.inits = 1
    /\ om.data # NoText
    /\ ~InSeq(BytesLine, stdout)
    /\ \A i \in 1..Len(stdout) :
          stdout[i].t = "object" => ("key" \in stdout[i].has /\ stdout[i].key # "null")

\* the count-mismatch entry of line 251
CountMismatch(n) ==
    "Error: Expected 1 output (isUnique=True) but received " \o ToString(n) \o "."

C4_Claimed ==
    (Returned /\ isUnique) => response.data.t # "list"

\* C4 where the first kept line echoes isUnique=true: data is that line's
\* data or null
C4_Echoed ==
    (Returned /\ isUnique /\ caught.cls = "none" /\ accepted # <<>>
     /\ accepted[1].isUnique = "true")
        => /\ response.data.t # "list"
           /\ response.data = IF Len(accepted) = 1 THEN accepted[1].data ELSE JNull

\* C5, as claimed: for every request made with isUnique=false, whatever the
\* child outputs and however it exits, the result's data is a sequence whose
\* length is the number of kept lines.
C5_Claimed ==
    (SawExit /\ ~isUnique)
        => /\ response.data.t = "list"
           /\ Len(response.data.l) = Len(accepted)

\* the kept lines were folded: the child exited 0, its output decoded, a line
\* was kept and every kept line had the fields read
Folded == SawExit /\ caught = [cls |-> "none", at |-> "fold"]

\* C5, amended: for every request made with isUnique=false, if the child
\* exits 0, at least one line is kept, no kept line lacks a field the caller
\* reads and the first kept line does not carry isUnique=true, the result's
\* data is a sequence whose length is the number of kept lines; on a non-zero
\* exit, when no line is kept and when the call fails with an exception, data
\* is null.
C5_SequenceWhenFolded ==
    (Returned /\ ~isUnique)
        => IF Folded
           THEN ~Truthy(accepted[1].isUnique)
                   => /\ response.data.t = "list"
                      /\ Len(response.data.l) = Len(accepted)
                      /\ Len(accepted) >= 1
           ELSE response.data = JNull

\* two lines kept under isUnique=false: data is a sequence of two
C5_Witness ==
    /\ Folded /\ ~isUnique
    /\ Len(accepted) = 2
    /\ response.data.t = "list"
    /\ Len(response.data.l) = 2

----------------------------------------------------------------------------
(* The child's life within the call: claim C11 *)

\* C11, as claimed: on every path through request(), the failure paths taken
\* after the spawn included, at most one child is created, and when
\* request() returns that child has had its input closed, has exited and has
\* been waited on.
C11_Claimed ==
    /\ process.spawned <= 1
    /\ (Returned /\ process.spawned = 1)
          => /\ stdin.closed
             /\ process.state = "exited"
             /\ process.waited

\* C11 where the request was serialized: communicate() closes the input and
\* waits
C11_Communicated ==
    /\ process.spawned <= 1
    /\ (Returned /\ process.spawned = 1 /\ caught.at # "dumps")
          => /\ stdin.closed
             /\ process.state = "exited"
             /\ process.waited

----------------------------------------------------------------------------
(* OutputManager: claims C12, C13, C14, C19, C20 *)

\* the line of lines 404-414: no key, request_status false, data null
FaultLine ==
    ObjectLine(ObjectFields, "null", "false", JNull, "null", "null",
               <<"Error: OutputManager isn't initialized.">>, <<>>)

\* how often a line stands on the real output channel
Occurrences(line) == Len(SelectSeq(stdout, LAMBDA l : l = line))

\* C12, as claimed: if init() was never successfully called, the first call
\* to output() writes exactly one line on the real output channel, with
\* request_status false, the 'not initialized' error, data null and no key,
\* and every later call writes nothing: over any number of calls the fault
\* line appears exactly once.
C12_Claimed ==
    om.data = NoText
        => IF child.outputs = 0
           THEN child.wrote = <<>> /\ Occurrences(FaultLine) = 0
           ELSE /\ child.wrote = <<[line |-> FaultLine, to |-> "real"]>>
                /\ Occurrences(FaultLine) = 1

\* C12 where init() was not called again after an init() that failed: the
\* handle saved at line 345 is the real channel
C12_SavedReal ==
    (om.data = NoText /\ om.original_stdout # "discard")
        => IF child.outputs = 0
           THEN child.wrote = <<>> /\ Occurrences(FaultLine) = 0
           ELSE /\ child.wrote = <<[line |-> FaultLine, to |-> "real"]>>
                /\ Occurrences(FaultLine) = 1

\* the error of line 425
OutOfBound == "Error: outputs out of bound (isUnique: True)."

\* the line the k-th output() after the init() that succeeded wrote; an
\* output() before that init() wrote the fault line first
EmittedLine(k) == child.wrote[Len(child.wrote) - Len(child.emitted) + k].line

\* C13: after a successful init(), the k-th call to output(value) writes one
\* line whose request_status is true if and only if k = 1 or the request's
\* isUnique is false; a line with request_status false carries the
\* out-of-bounds error and still carries the value; every line echoes the
\* request's key, optionalOutput and isUnique.
C13_Emission ==
    om.data # NoText
        => /\ Len(child.wrote) - Len(child.emitted) \in {0, 1}
           /\ \A k \in 1..Len(child.emitted) :
                 LET line == EmittedLine(k)
                 IN  /\ line.has = ObjectFields
                     /\ line.request_status = IF k = 1 \/ ~isUnique THEN "true" ELSE "false"
                     /\ line.request_status = "false" => InSeq(OutOfBound, line.errors)
                     /\ line.data = child.emitted[k]
                     /\ line.key = KEY
                     /\ line.optionalOutput = JBool(optionalOutput)
                     /\ line.isUnique = JBool(isUnique)

\* under isUnique=true the second output(2) wrote a line with request_status
\* false, the out-of-bounds error and the value 2
C13_Witness ==
    /\ om.data # NoText /\ isUnique
    /\ Len(child.emitted) = 2
    /\ EmittedLine(2).request_status = "false"
    /\ EmittedLine(2).errors = <<OutOfBound>>
    /\ EmittedLine(2).data = JVal("2")
    /\ EmittedLine(1).request_status = "true"

\* where the k-th output() after the init() that succeeded wrote its line
EmittedTo(k) == child.wrote[Len(child.wrote) - Len(child.emitted) + k].to

\* C14, as claimed: after init() has succeeded, at every point outside an
\* output() call the standard output is bound to a discard buffer, and each
\* output() restores the real channel and writes exactly one response line
\* there before it redirects the standard output again.
C14_Claimed ==
    om.data # NoText
        => /\ child.pc \in {"run", "reading", "exited"} => child.sys_stdout = "discard"
           /\ \A k \in 1..Len(child.emitted) : EmittedTo(k) = "real"

\* C14 for a callee that calls init() once: the standard output stays bound
\* to a discard buffer, and every response line reaches the real channel
C14_SingleInit ==
    (om.data # NoText /\ child.inits = 1)
        => /\ child.pc \in {"run", "reading", "exited"} => child.sys_stdout = "discard"
           /\ \A k \in 1..Len(child.emitted) : EmittedTo(k) = "real"

\* once init() has succeeded, a step puts on the real channel nothing but one
\* response line of output(): what the child's own logic prints is discarded
C14_Contained ==
    [][om.data # NoText
          => \/ stdout' = stdout
             \/ /\ Len(child'.emitted) = Len(child.emitted) + 1
                /\ stdout' = Append(stdout, child'.wrote[Len(child'.wrote)].line)]_vars

\* C19, as claimed: after any sequence of init() and output() calls, a
\* repeated init() and an init() that fails while decoding included, the
\* handle saved as the real output channel is the real standard output and
\* never a discard buffer, so every line output() writes after a successful
\* init() reaches the real channel.
C19_Claimed ==
    /\ om.original_stdout \in {"none", "real"}
    /\ \A k \in 1..Len(child.emitted) : EmittedTo(k) = "real"

\* C19 up to the first return of init(): the handle saved is the real channel
C19_FirstInit ==
    child.inits <= 1
        => /\ om.original_stdout \in {"none", "real"}
           /\ \A k \in 1..Len(child.emitted) : EmittedTo(k) = "real"

\* s is an initial part of t
IsPrefix(s, t) == Len(s) <= Len(t) /\ SubSeq(t, 1, Len(s)) = s

----------------------------------------------------------------------------
(* The lines the caller keeps and folds: claims C15, C16, C17 *)

\* the key a decoded line carries; "null" when it has none
KeyOf(line) == IF "key" \in line.has THEN line.key ELSE "null"

\* a decoded line that carries the key of some other exchange
OtherKeyed(line) == line.t = "object" /\ KeyOf(line) \notin {KEY, "null"}

\* what request() had returned, had the child printed only the lines of out
ResultOf(out) ==
    LET c == collect(out, process.returncode, process.stderr, KEY, optionalOutput,
                     isUnique)
    IN  IF c.exc = "none" THEN c.response ELSE except_response(c.exc, c.msg)

\* C15: every line folded into the result carries this call's key or no key,
\* and a decoded line that carries any other key changes nothing of
\* request_status, data, isUnique and errors: the result is what it had been
\* without that line.
C15_OwnKey ==
    SawExit
        => /\ \A i \in 1..Len(accepted) : KeyOf(accepted[i]) \in {KEY, "null"}
           /\ LET r == ResultOf(SelectSeq(stdout, LAMBDA l : ~OtherKeyed(l)))
              IN  /\ response.request_status = r.request_status
                  /\ response.data = r.data
                  /\ response.isUnique = r.isUnique
                  /\ response.errors = r.errors

\* the child printed a line with another key before it called init() and
\* output(2); the callee's line is folded, the other one is not
C15_Witness ==
    /\ Folded /\ isUnique
    /\ Len(stdout) = 2
    /\ stdout[1] = ForeignLine
    /\ accepted = <<stdout[2]>>
    /\ KeyOf(accepted[1]) = KEY
    /\ response.request_status = "true"
    /\ response.data = JVal("2")

\* a line that is not blank and is no ResponseLine: plain text, a JSON value
\* that is no object, a JSON object that lacks fields of a ResponseLine
Malformed(line) ==
    \/ line.t \in {"text", "scalar"}
    \/ line.t = "object" /\ line.has # ObjectFields

\* C16, as claimed: a line that is not blank and cannot be decoded as a
\* ResponseLine is dropped and is not fatal to the call: the result is what
\* it had been, had the child not printed the line, be it plain text, a JSON
\* value that is no object or a JSON object that lacks the fields.
C16_Claimed ==
    SawExit => response = ResultOf(SelectSeq(stdout, LAMBDA l : ~Malformed(l)))

\* C16 for the lines json.loads rejects and the values that are no dict
C16_NotAnObject ==
    SawExit
        => response = ResultOf(SelectSeq(stdout, LAMBDA l : l.t \notin {"text", "scalar"}))

RECURSIVE ErrorsUpTo(_)
\* the errors of the first n kept lines, line after line
ErrorsUpTo(n) == IF n = 0 THEN <<>> ELSE ErrorsUpTo(n - 1) \o accepted[n].errors

\* the uniqueness check of lines 245-251 passes
UniquenessHolds == Truthy(accepted[1].isUnique) => Len(accepted) = 1

\* what the claim says of the result, of the lines kept
FoldedAsClaimed ==
    /\ response.request_status =
          IF /\ \A i \in 1..Len(accepted) : accepted[i].request_status = "true"
             /\ UniquenessHolds
          THEN "true" ELSE "false"
    /\ response.isUnique = accepted[1].isUnique
    /\ response.errors =
          ErrorsUpTo(Len(accepted)) \o
          (IF UniquenessHolds THEN <<>> ELSE <<CountMismatch(Len(accepted))>>)

\* C17, as claimed: when the child exits 0 and at least one line is kept, the
\* result's request_status is true if every kept line's request_status is
\* true and the uniqueness check passes, and false otherwise; its isUnique is
\* that of the first kept line; its errors are the kept lines' errors
\* concatenated in line order, before the entry a failed uniqueness check
\* adds.
C17_Claimed ==
    (SawExit /\ process.returncode = 0 /\ accepted # <<>>) => FoldedAsClaimed

\* C17 where every kept line has the fields lines 226-243 read
C17_Fold ==
    Folded => (Len(accepted) >= 1 /\ process.returncode = 0 /\ FoldedAsClaimed)

----------------------------------------------------------------------------
(* The exchange under fair scheduling: claim C18 *)

\* one target that resolves, a request for one required output, every payload
InitFair ==
    /\ language = "python"
    /\ file = <<"a", ".", "py">>
    /\ nt = FALSE
    /\ fs = [exists |-> TRUE, isfile |-> TRUE, r |-> TRUE, x |-> FALSE]
    /\ isUnique = TRUE
    /\ optionalOutput = FALSE
    /\ data \in Payloads
    /\ InitRest

\* a step of request()
Caller ==
    \/ Resolve
    \/ Spawn
    \/ Dumps
    \/ CommunicateWrite
    \/ CommunicateClose
    \/ CommunicateReturn

\* the caller is a sequential program that the host keeps running: its next
\* step is taken once it can be, and communicate() returns once the child
\* has exited; a read of a closed input returns.  Nothing makes the child's
\* own logic take a step, or end.
Fairness == WF_vars(Caller) /\ WF_vars(ChildInitRead)

SpecFair == InitFair /\ [][Next]_vars /\ Fairness

\* the request was serialized: there is a Request to write
Serialized == request # NoText

\* the child's input is closed only once it holds the whole Request, the
\* caller waits only once it is closed, and what init() decoded is the Request
Ordered ==
    /\ stdin.closed => (Serialized /\ stdin.text = request)
    /\ pc = "wait" => stdin.closed
    /\ om.data # NoText => om.data = request

\* C18, as claimed: the caller writes the whole serialized Request to the
\* child's input and closes it before it waits for the child, so init() never
\* sees the end of the input before the whole Request; an init() that is
\* reading eventually returns; and once the child has ended, request()
\* eventually returns.
C18_Claimed ==
    /\ []Ordered
    /\ (child.pc = "reading") ~> (child.pc # "reading")
    /\ (process.state = "exited") ~> Returned

\* C18 where the request was serialized: init() returns, and request() does
C18_Serialized ==
    /\ []Ordered
    /\ (child.pc = "reading" /\ Serialized) ~> (child.pc # "reading")
    /\ (process.state = "exited") ~> Returned

====
